---- MODULE Spec2Model ----
(***************************************************************************)
(* LinkCullen: the link service (policy-governed create / update / delete, *)
(* role-based reads) and the reconciliation pass synchronizeLinks, over a  *)
(* store of tracked links and share recipients.                            *)
(*                                                                         *)
(* Time is counted in ticks since 2024-01-01T00:00 local time, DayLen      *)
(* ticks to the day.  Date arithmetic is done the way the code does it:    *)
(* through the calendar (Date.getDate / Date.setDate), not by adding a     *)
(* number of ticks.                                                        *)
(***************************************************************************)
EXTENDS Integers, Sequences, FiniteSets, TLC

\* ------------------------------------------------------------------ bounds
DayLen == 2
MaxNow == 1
MaxId == 3

\* ------------------------------------------------------- program constants
DefaultMaxDurationExternal == 30
DefaultMaxDurationInternal == 365
\* Time 0: 2024-01-01T00:00, <<year, month, day>>.
Epoch == <<2024, 1, 1>>

Null == -1
Undefined == -2

\* ------------------------------------------------------------ enumerations
Role == {"USER", "ADMIN"}
ShareType == {"SPECIFIC_PEOPLE", "ANYONE"}
Permission == {"VIEW", "EDIT", "BLOCK_DOWNLOAD"}

\* The users of the store (model User): id and role.
Users == {[id |-> "u1", role |-> "USER"],
          [id |-> "u2", role |-> "USER"],
          [id |-> "adm", role |-> "ADMIN"]}

UserIds == {u.id : u \in Users}

\* ---------------------------------------------------------------- calendar
IsLeap(y) == (y % 4 = 0 /\ y % 100 # 0) \/ y % 400 = 0

DaysInMonth(y, m) ==
  IF m = 2 THEN (IF IsLeap(y) THEN 29 ELSE 28)
  ELSE IF m \in {4, 6, 9, 11} THEN 30 ELSE 31

\* Calendar date <<year, month, dayOfMonth>> of a day index (0 = the epoch),
\* walking month by month.
RECURSIVE WalkMonths(_, _, _)
WalkMonths(y, m, d) ==
  IF d < DaysInMonth(y, m) THEN <<y, m, d + 1>>
  ELSE IF m = 12 THEN WalkMonths(y + 1, 1, d - DaysInMonth(y, m))
  ELSE WalkMonths(y, m + 1, d - DaysInMonth(y, m))

ToYMD(t) == WalkMonths(Epoch[1], Epoch[2], t \div DayLen)

\* Date.getDate(): the day of the month.
GetDate(t) == ToYMD(t)[3]

\* Number of days from the epoch to the first day of month m of year y.
RECURSIVE DaysBefore(_, _)
DaysBefore(y, m) ==
  IF y = Epoch[1] /\ m = Epoch[2] THEN 0
  ELSE IF m = 1 THEN DaysBefore(y - 1, 12) + DaysInMonth(y - 1, 12)
  ELSE DaysBefore(y, m - 1) + DaysInMonth(y, m - 1)

\* Date.setDate(v) for v >= 1: day v of the current month, a value past the
\* end of the month running over into the following months; the time of day
\* is kept.
RECURSIVE Overflow(_, _, _)
Overflow(y, m, v) ==
  IF v <= DaysInMonth(y, m) THEN <<y, m, v>>
  ELSE IF m = 12 THEN Overflow(y + 1, 1, v - DaysInMonth(y, m))
  ELSE Overflow(y, m + 1, v - DaysInMonth(y, m))

SetDate(t, v) ==
  LET ymd == ToYMD(t)
      n == Overflow(ymd[1], ymd[2], v)
  IN (DaysBefore(n[1], n[2]) + n[3] - 1) * DayLen + (t % DayLen)

\* Mutant: maxDate.setDate(maxDays), the day of the month set, not advanced.
MaxDateSetOnly(now, maxDays) == SetDate(now, maxDays)

\* Mutant: the limit one day late.
MaxDateOneDayLate(now, maxDays) == SetDate(now, GetDate(now) + maxDays + 1)

\* const maxDate = new Date(now); maxDate.setDate(maxDate.getDate() + maxDays)
MaxDate(now, maxDays) == SetDate(now, GetDate(now) + maxDays)

\* ------------------------------------------------------------------ policy
\* model Policy; NoPolicy is prisma.policy.findFirst() returning null.
NoPolicy == [present |-> FALSE, allowPublicSharing |-> FALSE,
             maxDurationExternal |-> 0, maxDurationInternal |-> 0]

StoredPolicy(allowPublicSharing, maxDurationExternal, maxDurationInternal) ==
  [present |-> TRUE, allowPublicSharing |-> allowPublicSharing,
   maxDurationExternal |-> maxDurationExternal,
   maxDurationInternal |-> maxDurationInternal]

\* The defaults of the schema, with public sharing switched on.
DefaultPolicy == StoredPolicy(TRUE, DefaultMaxDurationExternal, DefaultMaxDurationInternal)

Policies ==
  {NoPolicy, DefaultPolicy, StoredPolicy(TRUE, 7, 90), StoredPolicy(FALSE, 7, 90)}

\* Mutant: a missing policy read as permission (policy?.allowPublicSharing ?? true).
AllowPublicSharingByDefault(pol) == pol.present => pol.allowPublicSharing

\* policy?.allowPublicSharing (undefined is falsy)
AllowPublicSharing(pol) == pol.present /\ pol.allowPublicSharing

\* Mutant: the internal duration read in the public branch.
MaxDurationExternalFromInternal(pol) ==
  IF pol.present THEN pol.maxDurationInternal ELSE DefaultMaxDurationInternal

\* policy?.maxDurationExternal ?? 30
MaxDurationExternal(pol) ==
  IF pol.present THEN pol.maxDurationExternal ELSE DefaultMaxDurationExternal

\* policy?.maxDurationInternal ?? 365
MaxDurationInternal(pol) ==
  IF pol.present THEN pol.maxDurationInternal ELSE DefaultMaxDurationInternal

\* -------------------------------------------------------------------- hash
\* createHash('sha256').update(filePath).digest('hex'): a function of the
\* path alone, injective on the paths of the model.
calculateSHA256(filePath) == <<"sha256", filePath>>

\* ------------------------------------------------------------------- state
VARIABLES
  links,            \* collection TrackedLink: id -> record
  shareRecipients,  \* collection ShareRecipient: records with their linkId
  nextId,           \* the next identifier the storage generates
  policy,           \* the Policy record in force (NoPolicy when none is stored)
  now,              \* the clock
  remote,           \* what the sharing platform lists: raw Graph share items
  sync,             \* the synchronizeLinks calls in flight, one per pass
  last,             \* the latest link-service call: operation, inputs, outcome
  notifier,         \* the expiring-links notifier and its checkAndNotify run
  pending           \* updateLink and deleteLink calls between lookup and write

vars == <<links, shareRecipients, nextId, policy, now, remote, sync, last, notifier, pending>>

NoLink == [id |-> 0, fileId |-> <<"", "">>, fileName |-> "", filePath |-> "",
           shareType |-> "", linkUrl |-> "", ownerId |-> "",
           createdAt |-> Null, expiresAt |-> Null]

NoUser == [id |-> "", role |-> ""]

\* No call of the operation is between its lookup and its write.
NoCall == [active |-> FALSE, id |-> 0, params |-> <<>>, user |-> NoUser]

\* Recipients of link id as the {recipient, permission} pairs.
RecipientsOf(recips, id) ==
  {[recipient |-> r.recipient, permission |-> r.permission] :
     r \in {x \in recips : x.linkId = id}}

\* recipients: { create: list } for link id
NewRecipients(id, list) ==
  {[linkId |-> id, recipient |-> r.recipient, permission |-> r.permission] :
     r \in list}

\* ----------------------------------------------------------------- storage
\* prisma.trackedLink.create: the storage generates the id and createdAt.
\* linkUrl is @unique and the owner must exist (connect).
CanCreate(lks, data) ==
  /\ \A i \in DOMAIN lks : lks[i].linkUrl # data.linkUrl
  /\ data.ownerId \in UserIds

StoredLink(id, t, data) ==
  [id |-> id, fileId |-> data.fileId, fileName |-> data.fileName,
   filePath |-> data.filePath, shareType |-> data.shareType,
   linkUrl |-> data.linkUrl, ownerId |-> data.ownerId,
   createdAt |-> t, expiresAt |-> data.expiresAt]

CreatedLinks(lks, id, t, data) ==
  [i \in DOMAIN lks \cup {id} |-> IF i = id THEN StoredLink(id, t, data) ELSE lks[i]]

\* prisma.trackedLink.delete: the relation ShareRecipient.link is required and
\* names no onDelete, so a link that still has recipients is not deleted.
CanDelete(lks, recips, id) ==
  /\ id \in DOMAIN lks
  /\ RecipientsOf(recips, id) = {}

DeletedLinks(lks, id) == [i \in DOMAIN lks \ {id} |-> lks[i]]

\* recipients: { deleteMany: {}, create: list } on link id
ReplacedRecipients(recips, id, list) ==
  {r \in recips : r.linkId # id} \cup NewRecipients(id, list)

\* ------------------------------------------------------------ link service
Outcome(kind, error, link, recips) ==
  [kind |-> kind, error |-> error, link |-> link, recipients |-> recips]

Throw(error) == Outcome("throw", error, NoLink, {})

\* logger.audit(action, userId, details): the event written to the log.
AuditEvent(action, userId, linkId) ==
  [action |-> action, userId |-> userId, linkId |-> linkId]

\* createLink, lines 70-92: the expiration to persist, or the rejection.
EvaluateCreate(params, pol, t) ==
  IF params.shareType = "ANYONE"
  THEN IF ~AllowPublicSharing(pol)
       THEN [ok |-> FALSE, error |-> "Public sharing not allowed", expires |-> Null]
       ELSE LET maxDate == MaxDate(t, MaxDurationExternal(pol))
            IN IF params.expiresAt # Undefined
               THEN IF params.expiresAt > maxDate
                    THEN [ok |-> FALSE,
                          error |-> "Expiration date exceeds allowed external limit",
                          expires |-> Null]
                    ELSE [ok |-> TRUE, error |-> "", expires |-> params.expiresAt]
               ELSE [ok |-> TRUE, error |-> "", expires |-> maxDate]
  ELSE LET maxDate == MaxDate(t, MaxDurationInternal(pol))
       IN IF params.expiresAt # Undefined
          THEN IF params.expiresAt > maxDate
               THEN [ok |-> FALSE,
                     error |-> "Expiration date exceeds allowed internal limit",
                     expires |-> Null]
               ELSE [ok |-> TRUE, error |-> "", expires |-> params.expiresAt]
          ELSE [ok |-> TRUE, error |-> "", expires |-> maxDate]

\* Mutant: the fileId computed from the file's name.
CreateDataHashingName(params, expires) ==
  [fileId |-> calculateSHA256(params.fileName), fileName |-> params.fileName,
   filePath |-> params.filePath, shareType |-> params.shareType,
   linkUrl |-> params.linkUrl, expiresAt |-> expires, ownerId |-> params.ownerId]

\* createLink, lines 93-114: the data handed to prisma.trackedLink.create.
CreateData(params, expires) ==
  [fileId |-> calculateSHA256(params.filePath), fileName |-> params.fileName,
   filePath |-> params.filePath, shareType |-> params.shareType,
   linkUrl |-> params.linkUrl, expiresAt |-> expires, ownerId |-> params.ownerId]

\* createLink: outcome and store after the call.  fault names the storage
\* call that fails, if any.
createLink(lks, recips, id, pol, t, params, fault) ==
  LET ev == EvaluateCreate(params, pol, t)
      data == CreateData(params, ev.expires)
      same == [links |-> lks, recips |-> recips, audit |-> <<>>]
      caught == <<"Failed to create tracked link">>
  IN IF fault = "policy.findFirst"
     THEN [out |-> Throw("DB error"), errors |-> <<>>] @@ same
     ELSE IF ~ev.ok THEN [out |-> Throw(ev.error), errors |-> <<>>] @@ same
     ELSE IF fault = "trackedLink.create" \/ ~CanCreate(lks, data)
     THEN [out |-> Throw("DB error"), errors |-> caught] @@ same
     ELSE IF fault = "logger.audit"
     THEN [out |-> Throw("Audit error"), errors |-> caught,
           links |-> CreatedLinks(lks, id, t, data),
           recips |-> recips \cup NewRecipients(id, params.recipients),
           audit |-> <<>>]
     ELSE [out |-> Outcome("link", "", StoredLink(id, t, data), {}),
           links |-> CreatedLinks(lks, id, t, data),
           recips |-> recips \cup NewRecipients(id, params.recipients),
           audit |-> <<AuditEvent("link.create", params.ownerId, id)>>,
           errors |-> <<>>]

\* The catch block of an operation, e.g. lines 156-159: logger.error(message,
\* error) and the same error thrown again.  The error lines the call wrote.
Logged(message, out) == IF out.kind = "throw" THEN <<message>> ELSE <<>>

\* Mutant: the ownership check left out.
getLinkByIdUnchecked(lks, recips, id, user, fault) ==
  IF fault = "trackedLink.findUnique" THEN Throw("DB error")
  ELSE IF id \notin DOMAIN lks THEN Outcome("null", "", NoLink, {})
  ELSE Outcome("link", "", lks[id], RecipientsOf(recips, id))

\* Mutant: a denied read reported as such.
getLinkByIdForbidden(lks, recips, id, user, fault) ==
  IF fault = "trackedLink.findUnique" THEN Throw("DB error")
  ELSE IF id \notin DOMAIN lks THEN Outcome("null", "", NoLink, {})
  ELSE IF user.role # "ADMIN" /\ lks[id].ownerId # user.id THEN Throw("Forbidden")
  ELSE Outcome("link", "", lks[id], RecipientsOf(recips, id))

\* getLinkById, lines 134-160.
getLinkById(lks, recips, id, user, fault) ==
  IF fault = "trackedLink.findUnique" THEN Throw("DB error")
  ELSE IF id \notin DOMAIN lks THEN Outcome("null", "", NoLink, {})
  ELSE IF user.role # "ADMIN" /\ lks[id].ownerId # user.id
  THEN Outcome("null", "", NoLink, {})
  ELSE Outcome("link", "", lks[id], RecipientsOf(recips, id))

\* updateLink, lines 205-217: the policy check made before the lookup.
EvaluateUpdate(params, pol, t) ==
  IF params.shareType = "ANYONE" /\ ~AllowPublicSharing(pol)
  THEN [ok |-> FALSE, error |-> "Public sharing not allowed"]
  ELSE IF params.expiresAt # Undefined /\ params.expiresAt # Null
  THEN LET maxDays == IF params.shareType = "ANYONE"
                      THEN MaxDurationExternal(pol)
                      ELSE MaxDurationInternal(pol)
       IN IF params.expiresAt > MaxDate(t, maxDays)
          THEN [ok |-> FALSE, error |-> "Expiration date exceeds allowed limit"]
          ELSE [ok |-> TRUE, error |-> ""]
  ELSE [ok |-> TRUE, error |-> ""]

\* Mutant: the supplied recipients added to the stored ones.
MergedRecipients(recips, id, list) == recips \cup NewRecipients(id, list)

\* updateLink, lines 229-231: recipients = { deleteMany: {}, create: list }.
UpdatedRecipients(recips, id, list) == ReplacedRecipients(recips, id, list)

\* Mutant: an expiration that is not supplied cleared.
UpdatedLinkClearingExpiry(link, params) ==
  [link EXCEPT
     !.shareType = IF params.shareType # "undefined" THEN params.shareType ELSE @,
     !.expiresAt = IF params.expiresAt # Undefined THEN params.expiresAt ELSE Null]

\* Mutant: the recipients replaced and the link's own fields left as stored.
UpdatedLinkFieldsLater(link, params) == link

\* updateLink, lines 225-232: the record after prisma.trackedLink.update.
UpdatedLink(link, params) ==
  [link EXCEPT
     !.shareType = IF params.shareType # "undefined" THEN params.shareType ELSE @,
     !.expiresAt = IF params.expiresAt # Undefined THEN params.expiresAt ELSE @]

\* updateLink, lines 202-245.
updateLink(lks, recips, pol, t, id, params, user, fault) ==
  LET ev == EvaluateUpdate(params, pol, t)
      existing == getLinkById(lks, recips, id, user, fault)
      same == [links |-> lks, recips |-> recips, audit |-> <<>>]
      caught == <<"Failed to update tracked link">>
      written == [links |-> [lks EXCEPT ![id] = UpdatedLink(@, params)],
                  recips |-> IF params.recipients.given
                             THEN UpdatedRecipients(recips, id, params.recipients.list)
                             ELSE recips]
  IN IF fault = "policy.findFirst"
     THEN [out |-> Throw("DB error"), errors |-> caught] @@ same
     ELSE IF ~ev.ok THEN [out |-> Throw(ev.error), errors |-> caught] @@ same
     ELSE IF existing.kind = "throw"
     THEN [out |-> existing,
           errors |-> Logged("Failed to get tracked link", existing) \o caught] @@ same
     ELSE IF existing.kind = "null"
     THEN [out |-> Outcome("null", "", NoLink, {}), errors |-> <<>>] @@ same
     ELSE IF fault = "trackedLink.update"
     THEN [out |-> Throw("DB error"), errors |-> caught] @@ same
     ELSE IF fault = "logger.audit"
     THEN [out |-> Throw("Audit error"), errors |-> caught, audit |-> <<>>] @@ written
     ELSE [out |-> Outcome("link", "", UpdatedLink(lks[id], params), {}),
           audit |-> <<AuditEvent("link.update", user.id, id)>>,
           errors |-> <<>>] @@ written

\* deleteLink, lines 250-275.
deleteLink(lks, recips, id, user, fault) ==
  LET existing == getLinkById(lks, recips, id, user, fault)
      same == [links |-> lks, recips |-> recips, audit |-> <<>>]
      caught == <<"Failed to delete tracked link">>
  IN IF existing.kind = "throw"
     THEN [out |-> existing,
           errors |-> Logged("Failed to get tracked link", existing) \o caught] @@ same
     ELSE IF existing.kind = "null"
     THEN [out |-> Outcome("false", "", NoLink, {}), errors |-> <<>>] @@ same
     ELSE IF fault = "trackedLink.delete" \/ ~CanDelete(lks, recips, id)
     THEN [out |-> Throw("DB error"), errors |-> caught] @@ same
     ELSE IF fault = "logger.audit"
     THEN [out |-> Throw("Audit error"), errors |-> caught,
           links |-> DeletedLinks(lks, id), recips |-> recips, audit |-> <<>>]
     ELSE [out |-> Outcome("true", "", NoLink, {}),
           links |-> DeletedLinks(lks, id),
           recips |-> recips,
           audit |-> <<AuditEvent("link.delete", user.id, id)>>,
           errors |-> <<>>]

\* ------------------------------------------------------------ remote source
\* A share as Microsoft Graph lists it (the fields fetchGraphLinks reads).
GraphItem(linkWebUrl, pathname, name, scope, expirationDateTime, createdBy, permissions) ==
  [link |-> [webUrl |-> linkWebUrl, scope |-> scope,
             expirationDateTime |-> expirationDateTime],
   driveItem |-> [name |-> name,
                  webUrl |-> [origin |-> "https://contoso.sharepoint.com",
                              pathname |-> pathname]],
   createdBy |-> createdBy,
   permissions |-> permissions]

\* fetchGraphLinks, lines 394-416: one Graph item as a tracked-link shape.
NormalizeItem(item) ==
  LET scope == IF item.link.scope = "anonymous" THEN "ANYONE" ELSE "SPECIFIC_PEOPLE"
      expiresAt == IF item.link.expirationDateTime # Null
                   THEN item.link.expirationDateTime ELSE Null
      filePath == item.driveItem.webUrl.pathname
  IN [fileId |-> calculateSHA256(filePath),
      fileName |-> item.driveItem.name,
      filePath |-> filePath,
      linkUrl |-> item.link.webUrl,
      expiresAt |-> expiresAt,
      ownerId |-> item.createdBy,
      shareType |-> scope,
      recipients |-> {[recipient |-> q.user,
                       permission |-> IF "write" \in q.roles THEN "EDIT" ELSE "VIEW"] :
                         q \in item.permissions}]

\* fetchGraphLinks: res.value.map(...)
fetchGraphLinks(listing) == [k \in 1..Len(listing) |-> NormalizeItem(listing[k])]

\* ------------------------------------------------------- synchronizeLinks
Passes == {1, 2}

\* The store a pass is measured against when it repeats a completed pass.
NoBase == [links |-> <<>>, recips |-> {}]

\* A pass: where it stands (pc, at: the call that failed), what it fetched
\* and read, its loop index, the lines it logged, and what is known of its
\* surroundings: clean (no one else has written to the store since its local
\* snapshot), rerun (it follows a completed, undisturbed pass that fetched
\* the same remote set), base (the store that earlier pass left), retry (it
\* follows a pass that stopped after its local snapshot, with the same remote
\* set: where that pass stopped) and by (the user whose request started it).
NoRetry == [at |-> "", i |-> 0]

IdlePass == [pc |-> "idle", at |-> "", remoteLinks |-> <<>>, localLinks |-> <<>>,
             i |-> 0, log |-> <<>>, clean |-> FALSE, rerun |-> FALSE,
             base |-> NoBase, retry |-> NoRetry, by |-> NoUser]

\* line 316
StartedPass == [IdlePass EXCEPT !.log = <<<<"info", "Starting link synchronization">>>>]

\* Mutant: the error logged and the pass carrying on.
FailedCarryingOn(pass, at) ==
  [pass EXCEPT !.log = Append(@, <<"error", "Failed to synchronize links">>)]

\* lines 357-360: the error is logged and rethrown.
Failed(pass, at) ==
  [pass EXCEPT !.pc = "failed", !.at = at,
               !.log = Append(@, <<"error", "Failed to synchronize links">>)]

\* line 356
Completed(pass) ==
  [pass EXCEPT !.pc = "done", !.i = 0,
               !.log = Append(@, <<"info", "Link synchronization complete">>)]

\* Mutant: a failed fetch taken for an empty remote set.
FailedFetchAsEmpty(pass) == [pass EXCEPT !.pc = "fetched"]

\* line 319 throwing: nothing has been read or written yet.
FailedFetch(pass) == Failed(pass, "fetchGraphLinks")

\* line 319 returning, after the pass before.
Fetched(pass, before, remoteLinks, lks, recips) ==
  LET rerun == /\ before.pc = "done" /\ before.clean
               /\ before.remoteLinks = remoteLinks
  IN [pass EXCEPT !.pc = "fetched", !.remoteLinks = remoteLinks,
                  !.rerun = rerun,
                  !.base = IF rerun THEN [links |-> lks, recips |-> recips]
                           ELSE NoBase]

\* A pass stopped after its local snapshot, in or before its loops.
Stopped(pass) ==
  /\ pass.pc = "failed"
  /\ pass.at \in {"trackedLink.update", "trackedLink.create", "trackedLink.delete",
                  "abandoned"}

\* line 319 returning in a pass that follows a stopped pass and fetches the
\* remote set that pass fetched.
FetchedAgain(pass, before, remoteLinks, lks, recips) ==
  [Fetched(pass, before, remoteLinks, lks, recips) EXCEPT
     !.retry = [at |-> before.at, i |-> before.i]]

\* prisma.trackedLink.findMany(): the stored links in storage order.
RECURSIVE InIdOrder(_, _)
InIdOrder(lks, from) ==
  IF from > MaxId + 1 THEN <<>>
  ELSE IF from \in DOMAIN lks THEN <<lks[from]>> \o InIdOrder(lks, from + 1)
  ELSE InIdOrder(lks, from + 1)

FindMany(lks) == InIdOrder(lks, 1)

\* Mutant: the set of remote linkUrls left empty.
RemoteUrlsNone(remoteLinks) == {}

\* new Set(remoteLinks.map(l => l.linkUrl))
RemoteUrls(remoteLinks) == {remoteLinks[k].linkUrl : k \in 1..Len(remoteLinks)}

\* localLinks.find(ll => ll.linkUrl === rl.linkUrl): index of the first match, 0 if none
FindLocal(localLinks, url) ==
  LET hits == {k \in 1..Len(localLinks) : localLinks[k].linkUrl = url}
  IN IF hits = {} THEN 0 ELSE CHOOSE k \in hits : \A h \in hits : k <= h

\* Mutant: the delete loop passing over the first local link.
DeleteTargetsAfterFirst(localLinks, remoteLinks, from) ==
  {k \in from..Len(localLinks) :
     k > 1 /\ localLinks[k].linkUrl \notin RemoteUrls(remoteLinks)}

\* Step 4: the local links still to be examined whose linkUrl is not remote.
DeleteTargets(localLinks, remoteLinks, from) ==
  {k \in from..Len(localLinks) : localLinks[k].linkUrl \notin RemoteUrls(remoteLinks)}

\* Mutant: the delete loop left out.
NextDeleteNone(localLinks, remoteLinks, from) == 0

NextDelete(localLinks, remoteLinks, from) ==
  LET ts == DeleteTargets(localLinks, remoteLinks, from)
  IN IF ts = {} THEN 0 ELSE CHOOSE k \in ts : \A h \in ts : k <= h

\* Mutant: the owner of an existing link left as it is.
SyncUpdatedLinkKeepingOwner(link, rl) ==
  [link EXCEPT !.fileId = rl.fileId, !.fileName = rl.fileName,
               !.filePath = rl.filePath, !.shareType = rl.shareType,
               !.linkUrl = rl.linkUrl, !.expiresAt = rl.expiresAt]

\* prisma.trackedLink.update({ where: { id }, data }) of step 3
SyncUpdatedLink(link, rl) ==
  [link EXCEPT !.fileId = rl.fileId, !.fileName = rl.fileName,
               !.filePath = rl.filePath, !.shareType = rl.shareType,
               !.linkUrl = rl.linkUrl, !.expiresAt = rl.expiresAt,
               !.ownerId = rl.ownerId]

CanSyncUpdate(lks, id, rl) ==
  /\ id \in DOMAIN lks
  /\ rl.ownerId \in UserIds
  /\ \A k \in DOMAIN lks : k # id => lks[k].linkUrl # rl.linkUrl

\* Where a pass stands after its upsert loop has handled entry i.
AfterUpsert(pass, i) ==
  IF i < Len(pass.remoteLinks) THEN [pass EXCEPT !.pc = "upsert", !.i = i + 1]
  ELSE LET d == NextDelete(pass.localLinks, pass.remoteLinks, 1)
       IN IF d = 0 THEN Completed(pass)
          ELSE [pass EXCEPT !.pc = "delete", !.i = d]

\* Where a pass stands after its delete loop has deleted local link j.
AfterDelete(pass, j) ==
  LET d == NextDelete(pass.localLinks, pass.remoteLinks, j + 1)
  IN IF d = 0 THEN Completed(pass)
     ELSE [pass EXCEPT !.pc = "delete", !.i = d]

\* A mutation of the store by anyone but pass p is seen by every other pass
\* that holds a snapshot.
Disturb(s, p) ==
  [q \in Passes |-> IF q # p /\ s[q].pc # "idle"
                    THEN [s[q] EXCEPT !.clean = FALSE, !.rerun = FALSE, !.base = NoBase]
                    ELSE s[q]]

\* ---------------------------------------------------------------- getLinks
DefaultPage == 1
DefaultLimit == 10

\* The outcome of a listing call: the page and the total.
ListOutcome(data, total) ==
  [kind |-> "list", error |-> "", link |-> NoLink, recipients |-> {},
   data |-> data, total |-> total]

\* Mutant: the where clause of an administrator for every caller.
WhereAll(lks, user) == DOMAIN lks

\* getLinks, lines 171-173: the ids the where clause selects.
Where(lks, user) ==
  IF user.role = "ADMIN" THEN DOMAIN lks
  ELSE {i \in DOMAIN lks : lks[i].ownerId = user.id}

\* orderBy: { createdAt: 'desc' }: the orders the storage may return the
\* selected links in (links created at the same time in either order).
Orderings(lks, ids) ==
  {ord \in [1..Cardinality(ids) -> ids] :
     /\ \A a, b \in DOMAIN ord : a # b => ord[a] # ord[b]
     /\ \A a, b \in DOMAIN ord : a < b => lks[ord[a]].createdAt >= lks[ord[b]].createdAt}

Min(a, b) == IF a <= b THEN a ELSE b

\* getLinks, lines 165-197, the storage returning the selection in order ord.
getLinks(lks, recips, user, options, ord, fault) ==
  LET page == IF options.page = Undefined THEN DefaultPage ELSE options.page
      limit == IF options.limit = Undefined THEN DefaultLimit ELSE options.limit
      skip == (page - 1) * limit
      ids == SubSeq(ord, skip + 1, Min(skip + limit, Len(ord)))
  IN IF fault \in {"trackedLink.findMany", "trackedLink.count"} THEN Throw("DB error")
     ELSE ListOutcome([k \in DOMAIN ids |->
                         [link |-> lks[ids[k]],
                          recipients |-> RecipientsOf(recips, ids[k])]],
                      Cardinality(Where(lks, user)))

\* ------------------------------------------------------- findExpiringLinks
DefaultDaysThreshold == 7

\* findExpiringLinks, lines 282-284.  now is the clock at line 282;
\* thresholdDate is a second reading of the clock (line 283) whose day of the
\* month is then set from the first.
ThresholdDate(t1, t2, daysThreshold) == SetDate(t2, GetDate(t1) + daysThreshold)

\* lines 287-299: the where clause, and the include of owner and recipients.
IsExpiring(link, t1, thresholdDate) ==
  /\ link.expiresAt # Null
  /\ link.expiresAt > t1
  /\ link.expiresAt <= thresholdDate

findExpiringLinks(lks, recips, t1, t2, daysThreshold, fault) ==
  LET thresholdDate == ThresholdDate(t1, t2, daysThreshold)
      found == SelectSeq(FindMany(lks), LAMBDA l : IsExpiring(l, t1, thresholdDate))
  IN IF fault = "trackedLink.findMany" THEN Throw("DB error")
     ELSE ListOutcome([k \in DOMAIN found |->
                         [link |-> found[k],
                          owner |-> CHOOSE u \in Users : u.id = found[k].ownerId,
                          recipients |-> RecipientsOf(recips, found[k].id)]],
                      Len(found))

\* ---------------------------------------------------- ExpiringLinksNotifier
\* The notifier: its configuration (daysThreshold; rethrows: whether
\* sendExpirationNotification rethrows a delivery failure, as the copy of the
\* job in src/jobs does, or only logs it, as the other copy does) and its
\* checkAndNotify run: the scan's result, the groups, the group being sent,
\* the notification attempts made and the error lines logged.
IdleRun(daysThreshold, rethrows) ==
  [pc |-> "idle", at |-> "", daysThreshold |-> daysThreshold, rethrows |-> rethrows,
   expiringLinks |-> <<>>, linksByOwner |-> <<>>, i |-> 0, attempts |-> <<>>,
   errors |-> <<>>]

\* lines 104-114: expiringLinks.reduce(...), the groups in the order their
\* owners first appear (the order for...in visits the keys in).
RECURSIVE GroupFrom(_, _, _)
GroupFrom(expiringLinks, k, acc) ==
  IF k > Len(expiringLinks) THEN acc
  ELSE LET e == expiringLinks[k]
           at == {g \in DOMAIN acc : acc[g].owner.id = e.link.ownerId}
       IN IF at = {}
          THEN GroupFrom(expiringLinks, k + 1,
                         Append(acc, [owner |-> e.owner, links |-> <<e>>]))
          ELSE GroupFrom(expiringLinks, k + 1,
                         [g \in DOMAIN acc |->
                            IF g \in at THEN [acc[g] EXCEPT !.links = Append(@, e)]
                            ELSE acc[g]])

\* Mutant: one group for each link.
LinksOneByOne(expiringLinks) ==
  [k \in DOMAIN expiringLinks |->
     [owner |-> expiringLinks[k].owner, links |-> <<expiringLinks[k]>>]]

LinksByOwner(expiringLinks) == GroupFrom(expiringLinks, 1, <<>>)

\* The error rethrown by sendExpirationNotification reaching the catch of
\* checkAndNotify: logged again and rethrown, the loop abandoned.
AfterFailedSendRethrown(run) ==
  [run EXCEPT !.pc = "failed", !.at = "sendMail",
              !.errors = Append(@, "Failed to process expiring links notifications")]

\* Where a run stands after the notification of group i has been handled.
AfterSend(run) ==
  IF run.i < Len(run.linksByOwner) THEN [run EXCEPT !.i = @ + 1]
  ELSE [run EXCEPT !.pc = "done", !.i = 0]

\* The catch of sendExpirationNotification having logged the failure: the
\* error goes on to the catch of checkAndNotify, or the loop goes on.
AfterFailedSend(run) ==
  IF run.rethrows THEN AfterFailedSendRethrown(run) ELSE AfterSend(run)

\* ------------------------------------------------------- POST /api/v1/sync
\* getServerSession(): no session, or the session of a signed-in e-mail.
NoSession == [present |-> FALSE, email |-> ""]

Session(email) == [present |-> TRUE, email |-> email]

\* A stored user's e-mail address.
Email(user) == <<user.id, "example.com">>

\* prisma.user.findUnique({ where: { email } }), lines 43-45
FindUserByEmail(email) ==
  IF \E u \in Users : Email(u) = email
  THEN CHOOSE u \in Users : Email(u) = email
  ELSE NoUser

\* The response of the route, and whether it called synchronizeLinks.
Response(status, message, user, starts) ==
  [kind |-> "response", error |-> "", link |-> NoLink, recipients |-> {},
   status |-> status, message |-> message, user |-> user, starts |-> starts]

\* Mutant: the role check left out.
IsAdminAnyone(user) == TRUE

\* line 56: user.role !== Role.ADMIN
IsAdmin(user) == user.role = "ADMIN"

\* POST, lines 30-90.
POST(session, fault) ==
  IF ~session.present THEN Response(401, "Unauthorized", NoUser, FALSE)
  ELSE IF fault = "user.findUnique"
  THEN Response(500, "Failed to start synchronization", NoUser, FALSE)
  ELSE LET user == FindUserByEmail(session.email)
       IN IF user = NoUser THEN Response(404, "User not found", NoUser, FALSE)
          ELSE IF ~IsAdmin(user) THEN Response(403, "Forbidden", user, FALSE)
          ELSE Response(202, "Synchronization started", user, TRUE)

\* ------------------------------------------------------------------ inputs
NoRecipients == [given |-> FALSE, list |-> {}]

Given(list) == [given |-> TRUE, list |-> list]

R1View == [recipient |-> "r1", permission |-> "VIEW"]
R2Edit == [recipient |-> "r2", permission |-> "EDIT"]

\* Requested expirations around the limits of the two visibility classes at
\* time t under policy pol: on each limit, and one tick past each.
Expirations(t, pol) ==
  LET e == t + DayLen * MaxDurationExternal(pol)
      i == t + DayLen * MaxDurationInternal(pol)
  IN {e, e + 1, i, i + 1}

\* createLink requests that exercise the policy.
PolicyCreates(t, pol) ==
  [fileName : {"a.docx"}, filePath : {"/a"}, shareType : ShareType,
   recipients : {{}, {R1View}}, linkUrl : {"url1"},
   expiresAt : {Undefined} \cup Expirations(t, pol), ownerId : {"u1"}]

\* createLink requests that populate the store.
PlainCreate(ownerId, linkUrl, shareType, recipients) ==
  [fileName |-> "a.docx", filePath |-> "/a", shareType |-> shareType,
   recipients |-> recipients, linkUrl |-> linkUrl, expiresAt |-> Undefined,
   ownerId |-> ownerId]

PlainCreates ==
  {PlainCreate("u1", "url1", "SPECIFIC_PEOPLE", {}),
   PlainCreate("u1", "url1", "ANYONE", {R1View}),
   PlainCreate("u2", "url2", "SPECIFIC_PEOPLE", {})}

\* updateLink requests: each field absent or supplied, the expiration also
\* null, on the internal limit (past the external one) and past both.
Updates(t, pol) ==
  LET i == t + DayLen * MaxDurationInternal(pol)
  IN [shareType : ShareType \cup {"undefined"},
      expiresAt : {Undefined, Null, i, i + 1},
      recipients : {NoRecipients}]
     \cup {[shareType |-> "undefined", expiresAt |-> Undefined,
             recipients |-> Given({R2Edit})]}

\* updateLink requests of the access checks: one the policy may reject, one
\* that replaces the recipients.
\* PUT /links/:id with expiresAt: null ("allow removing the expiration date").
ClearExpiration ==
  [shareType |-> "undefined", expiresAt |-> Null, recipients |-> Given({R2Edit})]

AccessUpdates ==
  {[shareType |-> "ANYONE", expiresAt |-> Undefined, recipients |-> NoRecipients],
   ClearExpiration}

AccessFaults == {"none", "trackedLink.findUnique"}

RemoteListings ==
  LET a == GraphItem("url1", "/a", "a.docx", "organization", 10 * DayLen, "u1", {})
      b == GraphItem("url1", "/b", "b.docx", "anonymous", Null, "u2",
                     {[user |-> "r1", roles |-> {"read", "write"}]})
      c == GraphItem("url3", "/b", "b.docx", "users", Null, "u1",
                     {[user |-> "r2", roles |-> {"read"}]})
  IN {<<>>, <<a>>, <<b, c>>, <<a, b>>}

User(id) == CHOOSE u \in Users : u.id = id

\* createLink requests that give one user two links and another user one.
ListCreates ==
  {PlainCreate("u1", "url1", "SPECIFIC_PEOPLE", {R1View}),
   PlainCreate("u1", "url3", "SPECIFIC_PEOPLE", {}),
   PlainCreate("u2", "url2", "SPECIFIC_PEOPLE", {})}

\* getLinks options: page and limit absent or given.
ListOptions == [page : {Undefined, 1, 2}, limit : {Undefined, 1, 2}]

\* The notification windows in use: one day, and the default.
DaysThresholds == {1, DefaultDaysThreshold}

\* Expirations on the edges of the windows: the first instants of the clock,
\* and the end of each window as measured from the first instant, and one
\* tick past it.
ScanExpirations ==
  {0, 1} \cup {d * DayLen + k : d \in DaysThresholds, k \in {0, 1}}

\* createLink requests with those expirations.
ScanCreates ==
  {[c EXCEPT !.expiresAt = e] :
     c \in {PlainCreate("u1", "url1", "SPECIFIC_PEOPLE", {R1View}),
            PlainCreate("u2", "url2", "SPECIFIC_PEOPLE", {})},
     e \in ScanExpirations}

\* createLink requests of two owners, expiring inside every window or only
\* inside the default one.
NotifyCreates ==
  {[c EXCEPT !.expiresAt = e] :
     c \in ListCreates, e \in {1, DefaultDaysThreshold * DayLen}}

\* ----------------------------------------------------------------- actions
\* The record of a call: its inputs, the time and the targeted link's
\* recipients when it was made, its outcome and the audit events it emitted.
\* createLink, updateLink and deleteLink reached their storage write: they
\* returned its result, or threw what logger.audit threw after it.
Wrote(out) == out.kind \in {"link", "true"} \/ out.error = "Audit error"

Call(op, id, user, params, fault, out, audit, errors) ==
  [op |-> op, id |-> id, user |-> user, params |-> params, fault |-> fault,
   t |-> now, pre |-> RecipientsOf(shareRecipients, id), out |-> out,
   audit |-> audit, errors |-> errors]

CreateLink(params, fault) ==
  /\ nextId <= MaxId
  /\ \E r \in {createLink(links, shareRecipients, nextId, policy, now, params, fault)} :
        /\ links' = r.links
        /\ shareRecipients' = r.recips
        /\ nextId' = IF Wrote(r.out) THEN nextId + 1 ELSE nextId
        /\ sync' = IF Wrote(r.out) THEN Disturb(sync, 0) ELSE sync
        /\ last' = Call("createLink", 0, NoUser, params, fault, r.out, r.audit, r.errors)
  /\ UNCHANGED <<policy, now, remote, notifier, pending>>

GetLinkById(id, user, fault) ==
  /\ \E out \in {getLinkById(links, shareRecipients, id, user, fault)} :
       last' = Call("getLinkById", id, user, <<>>, fault, out, <<>>,
                    Logged("Failed to get tracked link", out))
  /\ UNCHANGED <<links, shareRecipients, nextId, policy, now, remote, sync, notifier, pending>>

UpdateLink(id, params, user, fault) ==
  /\ \E r \in {updateLink(links, shareRecipients, policy, now, id, params, user, fault)} :
        /\ links' = r.links
        /\ shareRecipients' = r.recips
        /\ sync' = IF Wrote(r.out) THEN Disturb(sync, 0) ELSE sync
        /\ last' = Call("updateLink", id, user, params, fault, r.out, r.audit, r.errors)
  /\ UNCHANGED <<nextId, policy, now, remote, notifier, pending>>

DeleteLink(id, user, fault) ==
  /\ \E r \in {deleteLink(links, shareRecipients, id, user, fault)} :
        /\ links' = r.links
        /\ shareRecipients' = r.recips
        /\ sync' = IF Wrote(r.out) THEN Disturb(sync, 0) ELSE sync
        /\ last' = Call("deleteLink", id, user, <<>>, fault, r.out, r.audit, r.errors)
  /\ UNCHANGED <<nextId, policy, now, remote, notifier, pending>>

\* updateLink up to its lookup (lines 205-222): the call ends there when the
\* policy or the lookup turns it down, and otherwise stands before its write
\* while other calls run.
UpdateLinkLookup(id, params, user) ==
  /\ ~pending["updateLink"].active
  /\ LET ev == EvaluateUpdate(params, policy, now)
         existing == getLinkById(links, shareRecipients, id, user, "none")
     IN IF ~ev.ok
        THEN /\ last' = Call("updateLink", id, user, params, "none", Throw(ev.error),
                             <<>>, <<"Failed to update tracked link">>)
             /\ UNCHANGED pending
        ELSE IF existing.kind = "null"
        THEN /\ last' = Call("updateLink", id, user, params, "none",
                             Outcome("null", "", NoLink, {}), <<>>, <<>>)
             /\ UNCHANGED pending
        ELSE /\ pending' = [pending EXCEPT !["updateLink"] =
                              [active |-> TRUE, id |-> id, params |-> params,
                               user |-> user]]
             /\ UNCHANGED last
  /\ UNCHANGED <<links, shareRecipients, nextId, policy, now, remote, sync, notifier>>

\* updateLink from its write on (lines 225-240): prisma.trackedLink.update
\* on the store as it is now, which throws when the link is no longer there.
UpdateLinkWrite ==
  /\ pending["updateLink"].active
  /\ LET c == pending["updateLink"]
     IN IF c.id \notin DOMAIN links
        THEN /\ last' = Call("updateLink", c.id, c.user, c.params, "none",
                             Throw("DB error"), <<>>,
                             <<"Failed to update tracked link">>)
             /\ UNCHANGED <<links, shareRecipients, sync>>
        ELSE /\ links' = [links EXCEPT ![c.id] = UpdatedLink(@, c.params)]
             /\ shareRecipients' =
                  IF c.params.recipients.given
                  THEN UpdatedRecipients(shareRecipients, c.id, c.params.recipients.list)
                  ELSE shareRecipients
             /\ sync' = Disturb(sync, 0)
             /\ last' = Call("updateLink", c.id, c.user, c.params, "none",
                             Outcome("link", "", UpdatedLink(links[c.id], c.params), {}),
                             <<AuditEvent("link.update", c.user.id, c.id)>>, <<>>)
  /\ pending' = [pending EXCEPT !["updateLink"] = NoCall]
  /\ UNCHANGED <<nextId, policy, now, remote, notifier>>

\* deleteLink up to its lookup (lines 252-257).
DeleteLinkLookup(id, user) ==
  /\ ~pending["deleteLink"].active
  /\ IF getLinkById(links, shareRecipients, id, user, "none").kind = "null"
     THEN /\ last' = Call("deleteLink", id, user, <<>>, "none",
                          Outcome("false", "", NoLink, {}), <<>>, <<>>)
          /\ UNCHANGED pending
     ELSE /\ pending' = [pending EXCEPT !["deleteLink"] =
                           [active |-> TRUE, id |-> id, params |-> <<>>,
                            user |-> user]]
          /\ UNCHANGED last
  /\ UNCHANGED <<links, shareRecipients, nextId, policy, now, remote, sync, notifier>>

\* deleteLink from its write on (lines 259-270): prisma.trackedLink.delete
\* on the store as it is now.
DeleteLinkWrite ==
  /\ pending["deleteLink"].active
  /\ LET c == pending["deleteLink"]
     IN IF c.id \notin DOMAIN links \/ ~CanDelete(links, shareRecipients, c.id)
        THEN /\ last' = Call("deleteLink", c.id, c.user, <<>>, "none",
                             Throw("DB error"), <<>>,
                             <<"Failed to delete tracked link">>)
             /\ UNCHANGED <<links, sync>>
        ELSE /\ links' = DeletedLinks(links, c.id)
             /\ sync' = Disturb(sync, 0)
             /\ last' = Call("deleteLink", c.id, c.user, <<>>, "none",
                             Outcome("true", "", NoLink, {}),
                             <<AuditEvent("link.delete", c.user.id, c.id)>>, <<>>)
  /\ pending' = [pending EXCEPT !["deleteLink"] = NoCall]
  /\ UNCHANGED <<shareRecipients, nextId, policy, now, remote, notifier>>

\* getLinks(user, options)
GetLinks(user, options, fault) ==
  /\ \E ord \in Orderings(links, Where(links, user)) :
       \E out \in {getLinks(links, shareRecipients, user, options, ord, fault)} :
         last' = Call("getLinks", 0, user, options, fault, out, <<>>,
                      Logged("Failed to get tracked links", out))
  /\ UNCHANGED <<links, shareRecipients, nextId, policy, now, remote, sync, notifier, pending>>

\* findExpiringLinks(daysThreshold); the clock reads t2 at its second reading.
FindExpiringLinks(daysThreshold, t2, fault) ==
  /\ t2 >= now /\ t2 <= MaxNow
  /\ \E out \in {findExpiringLinks(links, shareRecipients, now, t2,
                                     daysThreshold, fault)} :
       last' = Call("findExpiringLinks", 0, NoUser, [daysThreshold |-> daysThreshold],
                    fault, out, <<>>, Logged("Failed to find expiring links", out))
  /\ now' = t2
  /\ UNCHANGED <<links, shareRecipients, nextId, policy, remote, sync, notifier, pending>>

\* checkAndNotify, lines 89-114: the scan and the grouping, up to the first
\* notification.
CheckAndNotify(t2, fault) ==
  /\ notifier.pc \in {"idle", "done", "failed"}
  /\ t2 >= now /\ t2 <= MaxNow
  /\ LET run == IdleRun(notifier.daysThreshold, notifier.rethrows)
         found == findExpiringLinks(links, shareRecipients, now, t2,
                                    notifier.daysThreshold, fault)
     IN notifier' =
          IF found.kind = "throw"
          THEN [run EXCEPT !.pc = "failed", !.at = "findExpiringLinks",
                           !.errors = <<"Failed to find expiring links",
                                        "Failed to process expiring links notifications">>]
          ELSE IF Len(found.data) = 0 THEN [run EXCEPT !.pc = "done"]
          ELSE [run EXCEPT !.pc = "send", !.expiringLinks = found.data,
                           !.linksByOwner = LinksByOwner(found.data), !.i = 1]
  /\ now' = t2
  /\ UNCHANGED <<links, shareRecipients, nextId, policy, remote, sync, last, pending>>

\* One turn of the loop of lines 117-120: sendExpirationNotification for the
\* next owner, the delivery (transporter.sendMail) failing or not.
SendExpirationNotification(fails) ==
  /\ notifier.pc = "send"
  /\ LET g == notifier.linksByOwner[notifier.i]
         tried == [notifier EXCEPT
                     !.attempts = Append(@, [owner |-> g.owner, links |-> g.links,
                                             delivered |-> ~fails])]
     IN notifier' =
          IF fails
          THEN AfterFailedSend([tried EXCEPT !.errors =
                 Append(@, "Failed to send expiration notification email")])
          ELSE AfterSend(tried)
  /\ UNCHANGED <<links, shareRecipients, nextId, policy, now, remote, sync, last, pending>>

\* synchronizeLinks line 319: the remote fetch, which may fail.
SyncFetch(p, fails) ==
  /\ sync[p].pc \in {"idle", "done", "failed"}
  /\ sync' = [sync EXCEPT ![p] =
       IF fails THEN FailedFetch(StartedPass)
       ELSE Fetched(StartedPass, @, fetchGraphLinks(remote), links, shareRecipients)]
  /\ UNCHANGED <<links, shareRecipients, nextId, policy, now, remote, last, notifier, pending>>

\* POST /api/v1/sync: the checks and, for an administrator, the call of
\* synchronizeLinks, which runs up to its fetch before the route responds.
PostSync(session, p, fault) ==
  /\ sync[p].pc \in {"idle", "done", "failed"}
  /\ \E out \in {POST(session, fault)} :
       /\ last' = Call("POST /api/v1/sync", 0, out.user, session, fault, out, <<>>,
                       IF out.status = 500
                       THEN <<"Failed to start synchronization">> ELSE <<>>)
       /\ sync' = IF out.starts
                  THEN [sync EXCEPT ![p] =
                          [StartedPass EXCEPT !.pc = "started", !.by = out.user]]
                  ELSE sync
  /\ UNCHANGED <<links, shareRecipients, nextId, policy, now, remote, notifier, pending>>

\* line 319 of a pass the route started: the fetch returning or throwing.
SyncFetchStarted(p, fails) ==
  /\ sync[p].pc = "started"
  /\ sync' = [sync EXCEPT ![p] =
       IF fails THEN FailedFetch(@)
       ELSE Fetched(@, IdlePass, fetchGraphLinks(remote), links, shareRecipients)]
  /\ UNCHANGED <<links, shareRecipients, nextId, policy, now, remote, last, notifier, pending>>

\* synchronizeLinks called again after a stopped pass, the remote set being
\* what it was: its fetch, which may fail.
SyncRetry(p, fails) ==
  /\ Stopped(sync[p])
  /\ fetchGraphLinks(remote) = sync[p].remoteLinks
  /\ sync' = [sync EXCEPT ![p] =
       IF fails THEN FailedFetch(StartedPass)
       ELSE FetchedAgain(StartedPass, @, fetchGraphLinks(remote), links,
                         shareRecipients)]
  /\ UNCHANGED <<links, shareRecipients, nextId, policy, now, remote, last, notifier, pending>>

\* The process stops in the middle of a pass: nothing more is written or
\* logged.
SyncAbandon(p) ==
  /\ sync[p].pc \in {"upsert", "delete"}
  /\ sync' = [sync EXCEPT ![p] = [@ EXCEPT !.pc = "failed", !.at = "abandoned"]]
  /\ UNCHANGED <<links, shareRecipients, nextId, policy, now, remote, last, notifier, pending>>

\* line 321: the local snapshot; the loops run on from it up to the first
\* storage call.
SyncFindMany(p, fails) ==
  /\ sync[p].pc = "fetched"
  /\ sync' = [sync EXCEPT ![p] =
       IF fails THEN Failed(@, "trackedLink.findMany")
       ELSE AfterUpsert([@ EXCEPT !.localLinks = FindMany(links), !.clean = TRUE], 0)]
  /\ UNCHANGED <<links, shareRecipients, nextId, policy, now, remote, last, notifier, pending>>

\* lines 326-347: one turn of the upsert loop.
SyncUpsert(p, fails) ==
  /\ sync[p].pc = "upsert"
  /\ FindLocal(sync[p].localLinks, sync[p].remoteLinks[sync[p].i].linkUrl) = 0
       => nextId <= MaxId
  /\ LET pass == sync[p]
         rl == pass.remoteLinks[pass.i]
         k == FindLocal(pass.localLinks, rl.linkUrl)
         failed == [sync EXCEPT ![p] =
                      Failed(@, IF k # 0 THEN "trackedLink.update"
                                ELSE "trackedLink.create")]
     IN IF k # 0
        THEN LET id == pass.localLinks[k].id
             IN IF fails \/ ~CanSyncUpdate(links, id, rl)
                THEN /\ sync' = failed
                     /\ UNCHANGED <<links, shareRecipients, nextId>>
                ELSE /\ links' = [links EXCEPT ![id] = SyncUpdatedLink(@, rl)]
                     /\ shareRecipients' = ReplacedRecipients(shareRecipients, id, rl.recipients)
                     /\ sync' = [Disturb(sync, p) EXCEPT ![p] = AfterUpsert(pass, pass.i)]
                     /\ UNCHANGED nextId
        ELSE IF fails \/ ~CanCreate(links, rl)
             THEN /\ sync' = failed
                  /\ UNCHANGED <<links, shareRecipients, nextId>>
             ELSE /\ links' = CreatedLinks(links, nextId, now, rl)
                  /\ shareRecipients' = shareRecipients \cup NewRecipients(nextId, rl.recipients)
                  /\ nextId' = nextId + 1
                  /\ sync' = [Disturb(sync, p) EXCEPT ![p] = AfterUpsert(pass, pass.i)]
  /\ UNCHANGED <<policy, now, remote, last, notifier, pending>>

\* lines 350-354: one deletion of the delete loop.
SyncDelete(p, fails) ==
  /\ sync[p].pc = "delete"
  /\ LET pass == sync[p]
         id == pass.localLinks[pass.i].id
     IN IF fails \/ ~CanDelete(links, shareRecipients, id)
        THEN /\ sync' = [sync EXCEPT ![p] = Failed(@, "trackedLink.delete")]
             /\ UNCHANGED links
        ELSE /\ links' = DeletedLinks(links, id)
             /\ sync' = [Disturb(sync, p) EXCEPT ![p] = AfterDelete(pass, pass.i)]
  /\ UNCHANGED <<shareRecipients, nextId, policy, now, remote, last, notifier, pending>>

\* The sharing platform's listing changes.
RemoteChange(listing) ==
  /\ listing # remote
  /\ remote' = listing
  /\ UNCHANGED <<links, shareRecipients, nextId, policy, now, sync, last, notifier, pending>>

Tick ==
  /\ now < MaxNow
  /\ now' = now + 1
  /\ UNCHANGED <<links, shareRecipients, nextId, policy, remote, sync, last, notifier, pending>>

\* ----------------------------------------------------------- specification
InitOf(policies, runs) ==
  /\ links = <<>>
  /\ shareRecipients = {}
  /\ nextId = 1
  /\ policy \in policies
  /\ now = 0
  /\ remote = <<>>
  /\ sync = [p \in Passes |-> IdlePass]
  /\ last = Call("none", 0, NoUser, <<>>, "none", Outcome("none", "", NoLink, {}), <<>>, <<>>)
  /\ notifier \in runs
  /\ pending = [op \in {"updateLink", "deleteLink"} |-> NoCall]

InitWith(policies) == InitOf(policies, {IdleRun(DefaultDaysThreshold, TRUE)})

Init == InitWith(Policies)

InitService == InitWith({DefaultPolicy, StoredPolicy(FALSE, 7, 90)})

InitSync == InitWith({DefaultPolicy})

Ids == 1..MaxId

\* createLink under every policy, with deletions to free the linkUrl.
NextCreate ==
  \/ \E params \in PolicyCreates(now, policy),
        fault \in {"none", "policy.findFirst", "trackedLink.create"} :
       CreateLink(params, fault)
  \/ \E id \in Ids : DeleteLink(id, User("u1"), "none")
  \/ Tick

SpecCreate == Init /\ [][NextCreate]_vars

\* updateLink by the owner under every policy.
NextUpdate ==
  \/ \E params \in {c \in PlainCreates : c.ownerId = "u1"} : CreateLink(params, "none")
  \/ \E id \in Ids, params \in Updates(now, policy) :
       UpdateLink(id, params, User("u1"), "none")
  \/ Tick

SpecUpdate == Init /\ [][NextUpdate]_vars

\* Reads and writes by owners, other users and administrators.
NextAccess ==
  \/ \E params \in PlainCreates : CreateLink(params, "none")
  \/ \E id \in Ids, user \in Users, fault \in AccessFaults : GetLinkById(id, user, fault)
  \/ \E id \in Ids, params \in AccessUpdates, user \in Users, fault \in AccessFaults :
       UpdateLink(id, params, user, fault)
  \/ \E id \in Ids, user \in Users, fault \in AccessFaults : DeleteLink(id, user, fault)

SpecAccess == InitService /\ [][NextAccess]_vars

\* Reconciliation passes beside the link service.
NextSync ==
  \/ \E fails \in BOOLEAN : SyncFetch(1, fails)
  \/ \E fails \in BOOLEAN : SyncFindMany(1, fails)
  \/ \E fails \in BOOLEAN : SyncUpsert(1, fails)
  \/ \E fails \in BOOLEAN : SyncDelete(1, fails)
  \/ \E listing \in RemoteListings : RemoteChange(listing)
  \/ \E params \in {c \in PlainCreates : c.shareType = "SPECIFIC_PEOPLE"} :
       CreateLink(params, "none")
  \/ \E id \in Ids : DeleteLink(id, User("adm"), "none")

SpecSync == InitSync /\ [][NextSync]_vars

\* Overlapping reconciliation passes (POST /api/v1/sync does not wait for the
\* pass it starts).
NextOverlap ==
  \/ \E p \in Passes : SyncFetch(p, FALSE)
  \/ \E p \in Passes : SyncFindMany(p, FALSE)
  \/ \E p \in Passes : SyncUpsert(p, FALSE)
  \/ \E p \in Passes : SyncDelete(p, FALSE)
  \/ \E listing \in RemoteListings : RemoteChange(listing)

SpecOverlap == InitSync /\ [][NextOverlap]_vars

\* Listings by owners, other users and administrators.
NextList ==
  \/ \E params \in ListCreates : CreateLink(params, "none")
  \/ \E user \in Users, options \in ListOptions,
        fault \in {"none", "trackedLink.findMany"} : GetLinks(user, options, fault)
  \/ Tick

SpecList == InitSync /\ [][NextList]_vars

\* The expiration scan over links expiring around the edges of its window.
NextScan ==
  \/ \E params \in ScanCreates : CreateLink(params, "none")
  \/ \E d \in DaysThresholds, t2 \in 0..MaxNow,
        fault \in {"none", "trackedLink.findMany"} : FindExpiringLinks(d, t2, fault)
  \/ Tick

SpecScan == InitSync /\ [][NextScan]_vars

\* The notifier's runs, under either copy of the job and either window.
InitNotify ==
  InitOf({DefaultPolicy},
         {IdleRun(d, rethrows) : d \in DaysThresholds, rethrows \in BOOLEAN})

NextNotify ==
  \/ \E params \in NotifyCreates : CreateLink(params, "none")
  \/ \E t2 \in 0..MaxNow, fault \in {"none", "trackedLink.findMany"} :
       CheckAndNotify(t2, fault)
  \/ \E fails \in BOOLEAN : SendExpirationNotification(fails)

SpecNotify == InitNotify /\ [][NextNotify]_vars

\* Every mutating operation together: one pass at a time, no storage failure.
Next ==
  \/ SyncFetch(1, FALSE)
  \/ SyncFindMany(1, FALSE)
  \/ SyncUpsert(1, FALSE)
  \/ SyncDelete(1, FALSE)
  \/ \E listing \in RemoteListings : RemoteChange(listing)
  \/ CreateLink(PlainCreate("u1", "url1", "SPECIFIC_PEOPLE", {}), "none")
  \/ \E id \in Ids : UpdateLink(id, ClearExpiration, User("u1"), "none")
  \/ \E id \in Ids : DeleteLink(id, User("u1"), "none")

Spec == InitSync /\ [][Next]_vars

\* Passes started through the route by every kind of caller, beside links
\* created through the service.
Sessions == {NoSession, Session(<<"ghost", "example.com">>)}
              \cup {Session(Email(u)) : u \in Users}

NextRoute ==
  \/ \E session \in Sessions, fault \in {"none", "user.findUnique"} :
       PostSync(session, 1, fault)
  \/ \E fails \in BOOLEAN : SyncFetchStarted(1, fails)
  \/ SyncFindMany(1, FALSE)
  \/ SyncUpsert(1, FALSE)
  \/ SyncDelete(1, FALSE)
  \/ \E listing \in RemoteListings : RemoteChange(listing)
  \/ \E params \in PlainCreates : CreateLink(params, "none")

SpecRoute == InitSync /\ [][NextRoute]_vars

\* Passes that fail at a write or are abandoned, and the passes run after
\* them.
NextRetry ==
  \/ SyncFetch(1, FALSE)
  \/ SyncRetry(1, FALSE)
  \/ SyncFindMany(1, FALSE)
  \/ \E fails \in BOOLEAN : SyncUpsert(1, fails)
  \/ \E fails \in BOOLEAN : SyncDelete(1, fails)
  \/ SyncAbandon(1)
  \/ \E listing \in RemoteListings : RemoteChange(listing)
  \/ \E params \in {c \in PlainCreates : c.shareType = "SPECIFIC_PEOPLE"} :
       CreateLink(params, "none")

SpecRetry == InitSync /\ [][NextRetry]_vars

\* updateLink, deleteLink and a reconciliation pass at work on the same links
\* at the same time, each call's lookup and write apart.  The updates supply
\* all three fields.
RaceUpdates ==
  {[shareType |-> "ANYONE", expiresAt |-> Null, recipients |-> Given({R2Edit})],
   [shareType |-> "SPECIFIC_PEOPLE", expiresAt |-> DayLen,
    recipients |-> Given({R1View, R2Edit})]}

\* Remote sets with and without the link the calls are about.
RaceListings == {l \in RemoteListings : Len(l) < 2}

NextRace ==
  \/ SyncFetch(1, FALSE)
  \/ SyncFindMany(1, FALSE)
  \/ SyncUpsert(1, FALSE)
  \/ SyncDelete(1, FALSE)
  \/ \E listing \in RaceListings : RemoteChange(listing)
  \/ CreateLink(PlainCreate("u1", "url1", "SPECIFIC_PEOPLE", {R1View}), "none")
  \/ \E id \in DOMAIN links, params \in RaceUpdates :
       UpdateLinkLookup(id, params, User("adm"))
  \/ UpdateLinkWrite
  \/ \E id \in DOMAIN links : DeleteLinkLookup(id, User("adm"))
  \/ DeleteLinkWrite

SpecRace == InitSync /\ [][NextRace]_vars

\* Every operation of the link service under a failure of each call it makes:
\* the storage calls and logger.audit.
FaultUsers == {User("u1"), User("u2")}

NextFaults ==
  \/ \E params \in PlainCreates,
        fault \in {"none", "policy.findFirst", "trackedLink.create", "logger.audit"} :
       CreateLink(params, fault)
  \/ \E id \in Ids, user \in FaultUsers, fault \in AccessFaults : GetLinkById(id, user, fault)
  \/ \E id \in Ids, user \in FaultUsers,
        fault \in {"none", "policy.findFirst", "trackedLink.findUnique",
                   "trackedLink.update", "logger.audit"} :
       UpdateLink(id, ClearExpiration, user, fault)
  \/ \E id \in Ids, user \in FaultUsers,
        fault \in {"none", "trackedLink.findUnique", "trackedLink.delete",
                   "logger.audit"} :
       DeleteLink(id, user, fault)
  \/ \E user \in FaultUsers, fault \in {"none", "trackedLink.findMany"} :
       GetLinks(user, [page |-> Undefined, limit |-> Undefined], fault)
  \/ \E fault \in {"none", "trackedLink.findMany"} :
       FindExpiringLinks(DefaultDaysThreshold, now, fault)

SpecFaults == InitSync /\ [][NextFaults]_vars

\* ------------------------------------------------------------------ claims
LocalUrls == {links[i].linkUrl : i \in DOMAIN links}

SnapshotUrls(pass) == {pass.localLinks[k].linkUrl : k \in 1..Len(pass.localLinks)}

\* The allowed lifetime in days of a visibility class under the policy in
\* force (the schema's defaults when no policy record is stored).
AllowedDays(shareType) ==
  IF shareType = "ANYONE"
  THEN (IF policy.present THEN policy.maxDurationExternal ELSE 30)
  ELSE (IF policy.present THEN policy.maxDurationInternal ELSE 365)

PublicSharingDisabled == ~policy.present \/ ~policy.allowPublicSharing

CreateCalled == last.op = "createLink"

CreateSucceeded == CreateCalled /\ last.out.kind = "link"

\* C1: when a synchronizeLinks pass has completed and nothing else has
\* written to the store since the pass read its local snapshot, the linkUrls
\* of the local links are exactly the linkUrls of the remote set it fetched.
C1_ReconciliationComplete ==
  \A p \in Passes :
    (sync[p].pc = "done" /\ sync[p].clean)
      => LocalUrls = RemoteUrls(sync[p].remoteLinks)

\* A completed pass that updated one link, inserted one and deleted one.
C1_Witness ==
  /\ sync[1].pc = "done" /\ sync[1].clean
  /\ \E u \in SnapshotUrls(sync[1]) : u \notin RemoteUrls(sync[1].remoteLinks)
  /\ \E u \in RemoteUrls(sync[1].remoteLinks) : u \notin SnapshotUrls(sync[1])
  /\ \E u \in RemoteUrls(sync[1].remoteLinks) : u \in SnapshotUrls(sync[1])

\* C2: synchronizeLinks invocations are serialized: at most one pass is
\* between its local-snapshot read and its last local mutation.
C2_SingleFlight ==
  Cardinality({p \in Passes : sync[p].pc \in {"upsert", "delete"}}) <= 1

\* C3: a createLink request for a PUBLIC link made while public sharing is
\* disabled is rejected with "Public sharing not allowed" whatever expiration
\* it asks for, and the call leaves links and recipients as they were.
C3_PublicSharingDisabled ==
  [][(/\ last' # last
      /\ last'.op = "createLink"
      /\ last'.fault # "policy.findFirst"
      /\ last'.params.shareType = "ANYONE"
      /\ PublicSharingDisabled)
       => (/\ last'.out.kind = "throw"
           /\ last'.out.error = "Public sharing not allowed"
           /\ links' = links
           /\ shareRecipients' = shareRecipients)]_vars

\* A PUBLIC request with an expiration within the limit, rejected under a
\* stored policy that disables public sharing, with a link in the store.
C3_Witness ==
  /\ CreateCalled /\ last.out.kind = "throw"
  /\ last.params.shareType = "ANYONE"
  /\ policy.present /\ ~policy.allowPublicSharing
  /\ last.params.expiresAt # Undefined
  /\ last.params.expiresAt <= last.t + DayLen * policy.maxDurationExternal
  /\ links # <<>>

\* C4: the link a successful createLink persists has an expiresAt no later
\* than the time of the call plus the allowed days of its visibility class.
C4_ExpirationWithinLimit ==
  [][(last' # last /\ last'.op = "createLink" /\ last'.out.kind = "link")
       => LET l == last'.out.link
          IN /\ l.id \notin DOMAIN links
             /\ l.id \in DOMAIN links'
             /\ links'[l.id] = l
             /\ l.expiresAt <= now + DayLen * AllowedDays(l.shareType)]_vars

\* A PUBLIC link and a RESTRICTED link persisted on their limits.
C4_Witness ==
  /\ CreateSucceeded
  /\ last.params.expiresAt # Undefined
  /\ last.out.link.expiresAt = last.t + DayLen * AllowedDays(last.out.link.shareType)
  /\ last.out.link.shareType = "ANYONE"
  /\ policy = StoredPolicy(TRUE, 7, 90)

C6_ExcessiveExpirationRejected ==
  [][(/\ last' # last
      /\ last'.op = "createLink"
      /\ last'.fault # "policy.findFirst"
      /\ last'.params.expiresAt # Undefined
      /\ last'.params.expiresAt > now + DayLen * AllowedDays(last'.params.shareType))
       => (/\ last'.out.kind = "throw"
           /\ last'.out.error \in {"Expiration date exceeds allowed external limit",
                                   "Expiration date exceeds allowed internal limit",
                                   "Public sharing not allowed"}
           /\ links' = links
           /\ shareRecipients' = shareRecipients)]_vars

\* A request one tick past the external limit, rejected for that, with a
\* link and a recipient in the store.
C6_Witness ==
  /\ CreateCalled /\ last.out.kind = "throw"
  /\ last.out.error = "Expiration date exceeds allowed external limit"
  /\ last.params.expiresAt = last.t + DayLen * AllowedDays("ANYONE") + 1
  /\ links # <<>>
  /\ shareRecipients # {}

\* C7: after a successful updateLink that supplies a visibility class or an
\* expiration, the stored link is not PUBLIC while public sharing is
\* disabled, and its expiresAt is no later than the time of the update plus
\* the allowed days of the visibility class the link then has.
C7_UpdateWithinPolicy ==
  (/\ last.op = "updateLink"
   /\ last.out.kind = "link"
   /\ (last.params.shareType # "undefined" \/ last.params.expiresAt # Undefined))
    => LET l == last.out.link
       IN /\ l.id \in DOMAIN links /\ links[l.id] = l
          /\ ~(l.shareType = "ANYONE" /\ PublicSharingDisabled)
          /\ l.expiresAt <= last.t + DayLen * AllowedDays(l.shareType)

\* C8: every stored tracked link has an expiresAt.
C8_ExpirationNeverNull ==
  \A i \in DOMAIN links : links[i].expiresAt # Null

\* C9: getLinkById on a stored link returns that link if the user is an
\* administrator or its owner, and null for every other user.
C9_OwnerOrAdmin ==
  (last.op = "getLinkById" /\ last.fault = "none" /\ last.id \in DOMAIN links)
    => IF last.user.role = "ADMIN" \/ links[last.id].ownerId = last.user.id
       THEN /\ last.out.kind = "link"
            /\ last.out.link = links[last.id]
            /\ last.out.recipients = RecipientsOf(shareRecipients, last.id)
       ELSE last.out = Outcome("null", "", NoLink, {})

\* A user who is neither administrator nor owner reads a stored link.
C9_Witness ==
  /\ last.op = "getLinkById" /\ last.fault = "none"
  /\ last.id \in DOMAIN links
  /\ last.user.role = "USER"
  /\ links[last.id].ownerId # last.user.id
  /\ last.out.kind = "null"

\* The store with link x and its recipients taken out.
LinksWithout(x) == [i \in DOMAIN links \ {x} |-> links[i]]

RecipientsWithout(x) == {r \in shareRecipients : r.linkId # x}

\* The outcome the call c has against the store <<lks, recips>>.
Replay(c, lks, recips) ==
  CASE c.op = "getLinkById" -> getLinkById(lks, recips, c.id, c.user, c.fault)
    [] c.op = "updateLink" ->
         updateLink(lks, recips, policy, c.t, c.id, c.params, c.user, c.fault).out
    [] c.op = "deleteLink" -> deleteLink(lks, recips, c.id, c.user, c.fault).out

AnyFault ==
  {"none", "policy.findFirst", "trackedLink.findUnique", "trackedLink.update",
   "trackedLink.delete"}

\* C10: for a user who is not an administrator and a stored link x owned by
\* someone else, getLinkById, updateLink and deleteLink return what they
\* return when x is not stored at all (null, null and false, or the same
\* error): both for the call just made and for every call that could be made.
C10_MissingOrForbidden ==
  /\ (/\ last.op \in {"getLinkById", "updateLink", "deleteLink"}
      /\ last.user.role # "ADMIN"
      /\ last.id \in DOMAIN links
      /\ links[last.id].ownerId # last.user.id)
       => last.out = Replay(last, LinksWithout(last.id), RecipientsWithout(last.id))
  /\ \A u \in Users, x \in DOMAIN links :
       (u.role # "ADMIN" /\ links[x].ownerId # u.id) =>
         \A f \in AnyFault :
           LET get == [op |-> "getLinkById", id |-> x, user |-> u, fault |-> f]
               del == [op |-> "deleteLink", id |-> x, user |-> u, fault |-> f]
           IN /\ Replay(get, links, shareRecipients)
                   = Replay(get, LinksWithout(x), RecipientsWithout(x))
              /\ Replay(del, links, shareRecipients)
                   = Replay(del, LinksWithout(x), RecipientsWithout(x))
              /\ f = "none" => /\ Replay(get, links, shareRecipients).kind = "null"
                               /\ Replay(del, links, shareRecipients).kind = "false"
              /\ \A params \in AccessUpdates :
                   LET upd == [op |-> "updateLink", id |-> x, user |-> u, fault |-> f,
                               params |-> params, t |-> now]
                   IN /\ Replay(upd, links, shareRecipients)
                           = Replay(upd, LinksWithout(x), RecipientsWithout(x))
                      /\ Replay(upd, links, shareRecipients).kind \in {"null", "throw"}

\* A user who is neither administrator nor owner has tried to update and to
\* delete a stored link.
C10_Witness ==
  /\ last.op = "updateLink" /\ last.fault = "none"
  /\ last.user.role = "USER"
  /\ last.id \in DOMAIN links
  /\ links[last.id].ownerId # last.user.id
  /\ last.out.kind = "null"
  /\ shareRecipients # {}

\* The links a user may list: all of them for an administrator, their own
\* for anyone else.
Listable(user) ==
  {i \in DOMAIN links : user.role = "ADMIN" \/ links[i].ownerId = user.id}

\* C11: getLinks returns to a user who is not an administrator only links
\* that user owns, and a total that counts exactly those, whatever the page
\* and the limit; to an administrator the listing and the total range over
\* all stored links.  The page holds limit links of the listing from offset
\* (page - 1) * limit, or what is left of it, each link once.
C11_ListingRestricted ==
  (last.op = "getLinks" /\ last.out.kind = "list") =>
    LET data == last.out.data
        page == IF last.params.page = Undefined THEN 1 ELSE last.params.page
        limit == IF last.params.limit = Undefined THEN 10 ELSE last.params.limit
        left == Cardinality(Listable(last.user)) - (page - 1) * limit
    IN /\ \A k \in DOMAIN data :
            /\ data[k].link.id \in Listable(last.user)
            /\ data[k].link = links[data[k].link.id]
            /\ last.user.role # "ADMIN" => data[k].link.ownerId = last.user.id
       /\ \A j, k \in DOMAIN data : j # k => data[j].link.id # data[k].link.id
       /\ last.out.total = Cardinality(Listable(last.user))
       /\ last.user.role = "ADMIN" => last.out.total = Cardinality(DOMAIN links)
       /\ Len(data) = (IF left <= 0 THEN 0 ELSE IF left < limit THEN left ELSE limit)

\* The second page, one link long, of a user who owns two of three stored
\* links.
C11_Witness ==
  /\ last.op = "getLinks" /\ last.out.kind = "list"
  /\ last.user.role = "USER"
  /\ last.params.page = 2 /\ last.params.limit = 1
  /\ Len(last.out.data) = 1
  /\ last.out.total = 2
  /\ Cardinality(DOMAIN links) = 3

\* C12: updateLink and deleteLink called by a user who is not an
\* administrator on a stored link owned by someone else return null and
\* false, leave every link and every recipient as they were, and emit no
\* audit event.
C12_ForeignMutationDenied ==
  [][(/\ last' # last
      /\ last'.op \in {"updateLink", "deleteLink"}
      /\ last'.fault = "none"
      /\ last'.user.role # "ADMIN"
      /\ last'.id \in DOMAIN links
      /\ links[last'.id].ownerId # last'.user.id)
       => (/\ last'.out.kind = (IF last'.op = "updateLink" THEN "null" ELSE "false")
           /\ links' = links
           /\ shareRecipients' = shareRecipients
           /\ last'.audit = <<>>)]_vars

\* C13: after a successful updateLink that supplies a recipients list, the
\* recipients of the link are exactly the supplied ones: every recipient
\* stored before is gone unless it is supplied again.
C13_RecipientsReplaced ==
  (/\ last.op = "updateLink"
   /\ last.out.kind = "link"
   /\ last.params.recipients.given)
    => /\ RecipientsOf(shareRecipients, last.id) = last.params.recipients.list
       /\ \A r \in last.pre :
            r \notin last.params.recipients.list
              => r \notin RecipientsOf(shareRecipients, last.id)

\* A link shared with r1 to view is updated to be shared with r2 to edit.
C13_Witness ==
  /\ last.op = "updateLink" /\ last.out.kind = "link"
  /\ last.params.recipients = Given({R2Edit})
  /\ last.pre = {R1View}
  /\ RecipientsOf(shareRecipients, last.id) = {R2Edit}

LastWithUrl(remoteLinks, k) ==
  \A j \in (k + 1)..Len(remoteLinks) : remoteLinks[j].linkUrl # remoteLinks[k].linkUrl

C16_FetchBeforeMutation ==
  [][/\ \A p \in Passes :
          /\ (sync[p].pc \notin {"fetched", "upsert", "delete"}
                /\ sync'[p].pc = "fetched")
               => /\ sync'[p].remoteLinks = fetchGraphLinks(remote)
                  /\ links' = links /\ shareRecipients' = shareRecipients
          /\ (sync'[p] # sync[p] /\ sync'[p].pc = "failed"
                /\ sync'[p].at = "fetchGraphLinks")
               => /\ sync[p].pc \notin {"fetched", "upsert", "delete"}
                  /\ sync'[p].log[Len(sync'[p].log)][1] = "error"
                  /\ links' = links /\ shareRecipients' = shareRecipients
          /\ (sync[p].pc \notin {"fetched", "upsert", "delete"}
                /\ sync'[p] # sync[p] /\ last' = last /\ remote' = remote)
               => sync'[p].pc \in {"fetched", "failed"}
     /\ ((links' # links \/ shareRecipients' # shareRecipients) /\ last' = last)
          => \E p \in Passes :
               /\ sync[p].pc \in {"upsert", "delete"}
               /\ sync'[p].remoteLinks = sync[p].remoteLinks]_vars

\* A pass whose fetch failed, with links stored and remote links listed.
C16_Witness ==
  /\ sync[1].pc = "failed" /\ sync[1].at = "fetchGraphLinks"
  /\ links # <<>>
  /\ remote # <<>>

\* The fetched set has two entries with one linkUrl.
TwoWithOneUrl(remoteLinks) ==
  \E j, k \in 1..Len(remoteLinks) :
    j < k /\ remoteLinks[j].linkUrl = remoteLinks[k].linkUrl

\* C17: a synchronizeLinks pass whose fetched set has two entries with one
\* linkUrl, and which no other write disturbs, does not fail: it completes,
\* having logged a consistency warning, and leaves exactly one local link
\* for that linkUrl, with the fields of the entry processed last.
C17_DuplicateRemoteUrls ==
  \A p \in Passes :
    (/\ TwoWithOneUrl(sync[p].remoteLinks)
     /\ sync[p].clean
     /\ sync[p].pc \in {"done", "failed"})
      => /\ sync[p].pc = "done"
         /\ \E n \in 1..Len(sync[p].log) : sync[p].log[n][1] = "warn"
         /\ \A k \in 1..Len(sync[p].remoteLinks) :
              LastWithUrl(sync[p].remoteLinks, k) =>
                LET r == sync[p].remoteLinks[k]
                    ids == {i \in DOMAIN links : links[i].linkUrl = r.linkUrl}
                IN /\ Cardinality(ids) = 1
                   /\ \A i \in ids : /\ links[i].filePath = r.filePath
                                     /\ links[i].shareType = r.shareType
                                     /\ links[i].ownerId = r.ownerId

\* C18: findExpiringLinks(daysThreshold) called at time now returns exactly
\* the stored links whose expiresAt is not null and lies in the window
\* now < expiresAt <= now + daysThreshold days, each once: a link expiring at
\* now is left out, one expiring at the end of the window is returned, one
\* expiring any later is left out.
C18_ExpiringWindow ==
  (last.op = "findExpiringLinks" /\ last.out.kind = "list") =>
    LET data == last.out.data
        due == {i \in DOMAIN links :
                  /\ links[i].expiresAt # Null
                  /\ last.t < links[i].expiresAt
                  /\ links[i].expiresAt <= last.t + DayLen * last.params.daysThreshold}
    IN /\ {data[k].link.id : k \in DOMAIN data} = due
       /\ \A k \in DOMAIN data : data[k].link = links[data[k].link.id]
       /\ \A j, k \in DOMAIN data : j # k => data[j].link.id # data[k].link.id

\* The ids of the links of a notification, and of the expiring links the
\* scan of the run found for an owner.
LinkIds(entries) == {entries[k].link.id : k \in DOMAIN entries}

ExpiringOf(ownerId) ==
  {notifier.expiringLinks[k].link.id :
     k \in {j \in DOMAIN notifier.expiringLinks :
              notifier.expiringLinks[j].link.ownerId = ownerId}}

ExpiringOwners ==
  {notifier.expiringLinks[k].link.ownerId : k \in DOMAIN notifier.expiringLinks}

\* C19: in a checkAndNotify run no owner is sent two notifications, each
\* notification lists exactly the expiring links of its owner, each once, and
\* no expiring link is in two notifications; when the run has gone through
\* its loop every owner of an expiring link has had a notification attempt;
\* when no link is expiring none is attempted.
C19_OneNotificationPerOwner ==
  LET attempts == notifier.attempts
  IN /\ \A a \in DOMAIN attempts :
          /\ attempts[a].owner.id \in ExpiringOwners
          /\ LinkIds(attempts[a].links) = ExpiringOf(attempts[a].owner.id)
          /\ Cardinality(LinkIds(attempts[a].links)) = Len(attempts[a].links)
          /\ \A k \in DOMAIN attempts[a].links :
               attempts[a].links[k].link.ownerId = attempts[a].owner.id
     /\ \A a, b \in DOMAIN attempts :
          a # b => /\ attempts[a].owner.id # attempts[b].owner.id
                   /\ LinkIds(attempts[a].links) \cap LinkIds(attempts[b].links) = {}
     /\ notifier.pc = "done"
          => /\ {attempts[a].owner.id : a \in DOMAIN attempts} = ExpiringOwners
             /\ \A k \in DOMAIN notifier.expiringLinks :
                  \E a \in DOMAIN attempts :
                    notifier.expiringLinks[k].link.id \in LinkIds(attempts[a].links)
     /\ notifier.expiringLinks = <<>> => attempts = <<>>

\* A run over three expiring links of two owners has notified both, one of
\* them of two links.
C19_Witness ==
  /\ notifier.pc = "done"
  /\ Len(notifier.expiringLinks) = 3
  /\ Len(notifier.attempts) = 2
  /\ \E a \in DOMAIN notifier.attempts : Len(notifier.attempts[a].links) = 2

\* C20: a notification that cannot be delivered is logged and the failure
\* goes no further: the run does not fail for it, and once the run has ended
\* every owner of an expiring link has had a notification attempt.
C20_DeliveryFailureIsolated ==
  /\ ~(notifier.pc = "failed" /\ notifier.at = "sendMail")
  /\ (\E a \in DOMAIN notifier.attempts : ~notifier.attempts[a].delivered)
       => \E n \in DOMAIN notifier.errors :
            notifier.errors[n] = "Failed to send expiration notification email"
  /\ (notifier.pc \in {"done", "failed"} /\ notifier.at # "findExpiringLinks")
       => {notifier.attempts[a].owner.id : a \in DOMAIN notifier.attempts}
            = ExpiringOwners

\* C21: a failure to record the audit event does not fail the operation:
\* when createLink, updateLink or deleteLink has changed the store and
\* logger.audit then fails, the call returns its success result (the link, the
\* updated link, true).
C21_AuditFailureTolerated ==
  [][(/\ last' # last
      /\ last'.op \in {"createLink", "updateLink", "deleteLink"}
      /\ last'.fault = "logger.audit"
      /\ (links' # links \/ shareRecipients' # shareRecipients))
     => last'.out.kind \in {"link", "true"}]_vars

\* C24: a storage failure in createLink, getLinkById, getLinks, updateLink,
\* deleteLink or findExpiringLinks is thrown on as the same error and leaves
\* exactly one error line in the log for that call, also when the failing call
\* is the lookup updateLink and deleteLink make through getLinkById.
C24_StorageFailureLoggedOnce ==
  last.out = Throw("DB error") => Len(last.errors) = 1

\* C22: every mutating action writes exactly one audit event naming the actor
\* and the kind of action: each successful createLink, updateLink and
\* deleteLink, and each create, update and delete that synchronizeLinks
\* applies to the store; a call that is rejected, denied or fails before it
\* changes the store writes none.
C22_OneAuditEventPerMutation ==
  [][/\ (links' # links \/ shareRecipients' # shareRecipients)
          => /\ last' # last
             /\ Len(last'.audit) = 1
             /\ last'.audit[1].action \in {"link.create", "link.update", "link.delete"}
             /\ last'.audit[1].userId \in UserIds
     /\ (last' # last /\ last'.out.kind \in {"link", "true"}
           /\ last'.op \in {"createLink", "updateLink", "deleteLink"})
          => Len(last'.audit) = 1
     /\ (last' # last /\ last'.out.kind \notin {"link", "true"})
          => last'.audit = <<>>]_vars

\* C23: a reconciliation pass is started through POST /api/v1/sync only for
\* an authenticated administrator.  A pass that is under way or over was
\* started by an administrator's request; a request without a session, with
\* a session of an unknown user, or of a user who is not an administrator is
\* refused (401, 404, 403), starts no pass and leaves every stored link and
\* recipient as it was.
C23_OnlyAdminStartsPass ==
  [][/\ \A p \in Passes : sync'[p].pc # "idle" => sync'[p].by.role = "ADMIN"
     /\ (last' # last /\ last'.op = "POST /api/v1/sync")
          => LET s == last'.params
                 admin == s.present /\ FindUserByEmail(s.email).role = "ADMIN"
             IN /\ links' = links /\ shareRecipients' = shareRecipients
                /\ ~admin => /\ sync' = sync
                             /\ last'.out.status \in {401, 403, 404, 500}
                /\ (~admin /\ last'.fault = "none")
                     => last'.out.status =
                          IF ~s.present THEN 401
                          ELSE IF FindUserByEmail(s.email) = NoUser THEN 404
                          ELSE 403
                /\ sync' # sync => /\ admin /\ last'.out.status = 202
                                   /\ \E p \in Passes : sync'[p].pc = "started"
     /\ (links' # links \/ shareRecipients' # shareRecipients) /\ last' = last
          => \E p \in Passes : sync[p].pc \in {"upsert", "delete"}
                               /\ sync[p].by.role = "ADMIN"]_vars

\* A pass started by an administrator's request has changed the store, and
\* the last request, by a user who is not an administrator, was refused.
C23_Witness ==
  /\ last.op = "POST /api/v1/sync"
  /\ last.out.status = 403
  /\ sync[1].pc = "done" /\ sync[1].by.role = "ADMIN"
  /\ sync[1].remoteLinks # <<>>
  /\ links # <<>>

\* The stored link carries the fields and the recipients of the remote item.
EqualsRemote(link, recs, r) ==
  /\ link.linkUrl = r.linkUrl
  /\ link.fileId = r.fileId
  /\ link.fileName = r.fileName
  /\ link.filePath = r.filePath
  /\ link.shareType = r.shareType
  /\ link.expiresAt = r.expiresAt
  /\ link.ownerId = r.ownerId
  /\ recs = r.recipients

\* The remote entries a pass had applied when it stopped at a storage call of
\* its loops: those before the failing entry, or all of them.
AppliedEntries(pass) ==
  IF pass.at = "trackedLink.delete" THEN 1..Len(pass.remoteLinks)
  ELSE 1..(pass.i - 1)

\* The snapshot links a pass had deleted when it stopped.
DeletedEntries(pass) ==
  IF pass.at = "trackedLink.delete"
  THEN {k \in DeleteTargets(pass.localLinks, pass.remoteLinks, 1) : k < pass.i}
  ELSE {}

\* The store a pass leaves when one of its writes has failed, no one else
\* having written since its snapshot: exactly one error line; the entries
\* applied before the failure in place (each linkUrl carrying the last entry
\* applied to it) and the links deleted before it gone; every stored link as
\* the snapshot had it or equal to a remote item with its linkUrl; no linkUrl
\* from outside the snapshot and the remote set.
FailedPassKept(p) ==
  LET pass == sync[p]
      applied == AppliedEntries(pass)
  IN (/\ pass.pc = "failed" /\ pass.clean
      /\ pass.at \in {"trackedLink.update", "trackedLink.create", "trackedLink.delete"})
     => /\ Cardinality({n \in DOMAIN pass.log : pass.log[n][1] = "error"}) = 1
        /\ \A k \in applied :
             (\A j \in applied : j > k => pass.remoteLinks[j].linkUrl # pass.remoteLinks[k].linkUrl)
               => \E i \in DOMAIN links :
                    EqualsRemote(links[i], RecipientsOf(shareRecipients, i),
                                 pass.remoteLinks[k])
        /\ \A k \in DeletedEntries(pass) : pass.localLinks[k].id \notin DOMAIN links
        /\ \A i \in DOMAIN links :
             \/ \E k \in 1..Len(pass.localLinks) : pass.localLinks[k] = links[i]
             \/ \E k \in 1..Len(pass.remoteLinks) :
                  EqualsRemote(links[i], RecipientsOf(shareRecipients, i),
                               pass.remoteLinks[k])
        /\ LocalUrls \subseteq SnapshotUrls(pass) \cup RemoteUrls(pass.remoteLinks)

\* C25: when a create, update or delete of a synchronizeLinks pass fails, the
\* pass logs one error and throws, and writes nothing more; what it wrote
\* before the failure stays; every stored link is as it was before the pass
\* or equal to the remote item with its linkUrl, and the stored linkUrls are
\* among those of the snapshot and of the remote set.
C25_FailedPassStops ==
  [][/\ \A p \in Passes : FailedPassKept(p)'
     /\ \A p \in Passes :
          (\E n \in DOMAIN sync'[p].log : sync'[p].log[n][1] = "error")
            => sync'[p].pc = "failed"
     /\ (last' = last /\ \A p \in Passes : sync[p].pc \in {"idle", "failed"})
          => (links' = links /\ shareRecipients' = shareRecipients)]_vars

\* A pass has failed at a write after applying at least one remote entry:
\* one stored link is no longer as the snapshot had it, another still is.
C25_Witness ==
  /\ sync[1].pc = "failed" /\ sync[1].clean
  /\ sync[1].at \in {"trackedLink.update", "trackedLink.create", "trackedLink.delete"}
  /\ AppliedEntries(sync[1]) # {}
  /\ \E i \in DOMAIN links :
       \A k \in 1..Len(sync[1].localLinks) : sync[1].localLinks[k] # links[i]
  /\ \E i \in DOMAIN links :
       \E k \in 1..Len(sync[1].localLinks) : sync[1].localLinks[k] = links[i]

\* C26: when a pass has failed or been abandoned after any part of its
\* writes, and a later pass over the same remote set has run to its end with
\* nothing else writing to the store beside it, the stored linkUrls are
\* exactly the remote linkUrls and each stored link carries the fields and
\* recipients of the remote item with its linkUrl (of several, the last).
C26_RetryConverges ==
  \A p \in Passes :
    (sync[p].pc = "done" /\ sync[p].clean /\ sync[p].retry # NoRetry)
      => /\ LocalUrls = RemoteUrls(sync[p].remoteLinks)
         /\ \A k \in 1..Len(sync[p].remoteLinks) :
              LastWithUrl(sync[p].remoteLinks, k)
                => \A i \in DOMAIN links :
                     links[i].linkUrl = sync[p].remoteLinks[k].linkUrl
                       => EqualsRemote(links[i], RecipientsOf(shareRecipients, i),
                                       sync[p].remoteLinks[k])

\* A pass has completed after a pass that stopped with part of its writes
\* done: after its first entry, or in its delete loop.
C26_Witness ==
  /\ sync[1].pc = "done" /\ sync[1].clean
  /\ (sync[1].retry.at = "trackedLink.delete" \/ sync[1].retry.i > 1)
  /\ Len(sync[1].remoteLinks) = 2
  /\ Len(sync[1].localLinks) >= 2

\* What one write leaves in the three fields concurrent writers contend for.
Written(shareType, expiresAt, recipients) ==
  [shareType |-> shareType, expiresAt |-> expiresAt, recipients |-> recipients]

\* The writes the callers of the race issue: the createLink request, the
\* updateLink requests, and the remote items a pass applies.
RaceWrites(createdAt) ==
  {Written("SPECIFIC_PEOPLE", MaxDate(createdAt, MaxDurationInternal(policy)), {R1View})}
    \cup {Written(u.shareType, u.expiresAt, u.recipients.list) : u \in RaceUpdates}
    \cup {Written(r.shareType, r.expiresAt, r.recipients) :
            r \in {fetchGraphLinks(l)[1] : l \in RaceListings \ {<<>>}}}

\* C27: with updateLink, deleteLink and synchronizeLinks at work on one link
\* in any interleaving of their lookups and writes, the link is at every
\* moment absent or carries a shareType, an expiresAt and a recipient set that
\* are, all three together, what one single write left: never the recipients
\* of one write beside the visibility class or the expiration of another, and
\* never part of a recipient set.
C27_WholeWrites ==
  \A i \in DOMAIN links :
    Written(links[i].shareType, links[i].expiresAt, RecipientsOf(shareRecipients, i))
      \in RaceWrites(links[i].createdAt)

\* An updateLink has written to a link while a pass that holds a snapshot of
\* it is in its loops and a deleteLink of the same link stands between its
\* lookup and its write.
C27_Witness ==
  /\ last.op = "updateLink" /\ last.out.kind = "link"
  /\ sync[1].pc \in {"upsert", "delete"} /\ ~sync[1].clean
  /\ pending["deleteLink"].active /\ pending["deleteLink"].id = last.id
  /\ last.id \in DOMAIN links
  /\ links[last.id].ownerId = "u1"
  /\ links[last.id].fileName = "a.docx"
  /\ links[last.id].shareType = "ANYONE"
  /\ RecipientsOf(shareRecipients, last.id) = {R2Edit}

\* C28: every stored link's fileId is the SHA-256 digest of its filePath,
\* whether createLink stored it, a reconciliation pass imported or overwrote
\* it, or updateLink changed it since; and two stored links have the same
\* fileId exactly when they have the same filePath.
C28_FileIdIsPathDigest ==
  /\ \A i \in DOMAIN links : links[i].fileId = calculateSHA256(links[i].filePath)
  /\ \A i, j \in DOMAIN links :
       links[i].fileId = links[j].fileId <=> links[i].filePath = links[j].filePath

\* Two links imported with one filePath are stored, and updateLink has just
\* changed one of them.
C28_Witness ==
  /\ last.op = "updateLink" /\ last.out.kind = "link"
  /\ \E i, j \in DOMAIN links :
       /\ i # j
       /\ links[i].filePath = links[j].filePath
       /\ links[i].fileId = links[j].fileId
       /\ last.id = i

\* C29: recipients never outlive their link: no recipient record is left
\* whose link is not stored, after any deleteLink and any deletion of a pass;
\* and the deletion of a link that has recipients succeeds, by deleteLink
\* (for a caller allowed to delete it) and by a pass.
C29_RecipientsGoWithLink ==
  /\ \A r \in shareRecipients : r.linkId \in DOMAIN links
  /\ (/\ last.op = "deleteLink" /\ last.fault = "none"
      /\ last.pre # {}
      /\ last.out.kind # "false")
       => last.out.kind = "true"
  /\ \A p \in Passes :
       (sync[p].pc = "failed" /\ sync[p].clean /\ sync[p].at = "trackedLink.delete")
         => RecipientsOf(shareRecipients, sync[p].localLinks[sync[p].i].id) = {}

\* C30: a successful updateLink changes, of the targeted link, only those of
\* shareType, expiresAt and recipients that the request supplies: id, ownerId,
\* linkUrl, fileId, fileName, filePath and createdAt stay, a field not
\* supplied keeps its stored value (the recipient set too), and every other
\* link and its recipients stay as they were.
C30_UpdateFrame ==
  [][(last' # last /\ last'.op = "updateLink" /\ last'.out.kind = "link")
     => LET id == last'.id
            params == last'.params
        IN /\ DOMAIN links' = DOMAIN links
           /\ \A i \in DOMAIN links \ {id} : links'[i] = links[i]
           /\ {r \in shareRecipients' : r.linkId # id}
                = {r \in shareRecipients : r.linkId # id}
           /\ links'[id].id = links[id].id
           /\ links'[id].ownerId = links[id].ownerId
           /\ links'[id].linkUrl = links[id].linkUrl
           /\ links'[id].fileId = links[id].fileId
           /\ links'[id].fileName = links[id].fileName
           /\ links'[id].filePath = links[id].filePath
           /\ links'[id].createdAt = links[id].createdAt
           /\ links'[id].shareType =
                IF params.shareType # "undefined" THEN params.shareType
                ELSE links[id].shareType
           /\ links'[id].expiresAt =
                IF params.expiresAt # Undefined THEN params.expiresAt
                ELSE links[id].expiresAt
           /\ RecipientsOf(shareRecipients', id) =
                IF params.recipients.given THEN params.recipients.list
                ELSE RecipientsOf(shareRecipients, id)
           /\ last'.out.link = links'[id]]_vars

\* An updateLink that supplied the shareType alone has succeeded on a link
\* with an expiration and recipients, which it still has, beside another
\* stored link.
C30_Witness ==
  /\ last.op = "updateLink" /\ last.out.kind = "link"
  /\ last.params.shareType = "ANYONE"
  /\ last.params.expiresAt = Undefined
  /\ ~last.params.recipients.given
  /\ last.id \in DOMAIN links
  /\ links[last.id].shareType = "ANYONE"
  /\ links[last.id].expiresAt # Null
  /\ last.pre # {}
  /\ RecipientsOf(shareRecipients, last.id) = last.pre
  /\ Cardinality(DOMAIN links) > 1

====
